---------------------------- MODULE Spec2Model ----------------------------
(***************************************************************************)
(* A model of the recipe parser: main() and parse_recipe()                 *)
(* (Recipe_Extractor_Main.py), RecipeExtractor.extract_recipe()            *)
(* (Recipe_Extractor_Demo.py) and the Recipe / Ingredient schema           *)
(* (Models.py).                                                            *)
(*                                                                         *)
(* Representation.                                                         *)
(*  - An Optional value is a sequence: <<>> is None, <<v>> is the value v. *)
(*  - A string is a sequence of characters, "" being <<>>.  A recipe title *)
(*    is spelled character by character (one-character strings), so that  *)
(*    the file-name slug is computed as the code computes it; the other    *)
(*    texts, which the program only copies, are written as one token.      *)
(*  - A JSON value is a record tagged by its field t.  The text payload of *)
(*    an extraction is represented by the document it denotes, with the    *)
(*    tag "garbage" for a text that is not JSON.                           *)
(*  - A number is held in hundredths (225 is 2.25).                        *)
(*  - The input text is represented by the lengths of its leading          *)
(*    whitespace, of its stripped body and of its trailing whitespace.     *)
(***************************************************************************)
EXTENDS Integers, Sequences, FiniteSets, TLC

\* ---------------------------------------------------------------- bounds

\* The longest list of extractions the service returns in the model.
MaxExtractions == 2
\* The longest recipe title of the slug specification.
MaxTitleLen == 3
\* How many times parse_recipe is run on the same input.
MaxRuns == 2

\* ------------------------------------------------------ program constants

\* len(text.strip()) < 100
MinTextLen == 100

\* -------------------------------------------------------------- optionals

None == <<>>
Some(v) == <<v>>
IsNone(o) == o = <<>>
IsSome(o) == o # <<>>
Get(o) == o[1]

\* ------------------------------------------------------------ JSON values

JAbsent == [t |-> "absent"]
JNull == [t |-> "null"]
JGarbage == [t |-> "garbage"]
JStr(s) == [t |-> "str", s |-> s]
JInt(n) == [t |-> "int", n |-> n]
JFloat(n) == [t |-> "float", n |-> n]
JList(xs) == [t |-> "list", xs |-> xs]
JObj(f) == [t |-> "obj", f |-> f]

\* dict.get(key, default) on a parsed object: the keys of a document are the
\* fields of the record f, and an omitted key holds JAbsent.
DictGet(obj, key, default) ==
  IF obj.f[key].t = "absent" THEN default ELSE obj.f[key]

\* Python's truth value of a JSON value (None, "", 0, [] and {} are false).
Truthy(j) ==
  CASE j.t = "absent" -> FALSE
    [] j.t = "null" -> FALSE
    [] j.t = "str" -> j.s # <<>>
    [] j.t \in {"int", "float"} -> j.n # 0
    [] j.t = "list" -> j.xs # <<>>
    [] OTHER -> TRUE

\* --------------------------------------------------- Models.py: the schema

\* A str field accepts a string and nothing else (None included).
ValidStr(j) == j.t = "str"

\* Optional[str]: None or a string.
ValidOptStr(j) == j.t \in {"null", "str"}
OptStr(j) == IF j.t = "null" THEN None ELSE Some(j.s)

\* The numeric strings of the model, which a float field parses.
NumericStrings == {<<"2">>}
StrToFloat(s) == IF s = <<"2">> THEN 200 ELSE 0

\* Optional[float]: None, a float, an int (converted to the float of the same
\* value) or a numeric string (parsed).
ValidOptFloat(j) ==
  \/ j.t \in {"null", "int", "float"}
  \/ j.t = "str" /\ j.s \in NumericStrings
OptFloat(j) ==
  CASE j.t = "null" -> None
    [] j.t = "str" -> Some(StrToFloat(j.s))
    [] OTHER -> Some(j.n)

\* List[str]: a list whose items are all strings.
ValidStrList(j) ==
  j.t = "list" /\ \A i \in 1..Len(j.xs) : j.xs[i].t = "str"
StrList(j) == [i \in 1..Len(j.xs) |-> j.xs[i].s]

\* Ingredient(name=ing.get('name', ''), quantity=ing.get('quantity'),
\*            unit=ing.get('unit')): None when ing has no get (it is no
\* object) or a field fails validation, which raises.
\* Mutant: a missing quantity is taken as 0.
IngredientArgsZero(ing) ==
  [name |-> DictGet(ing, "name", JStr(<<>>)),
   quantity |-> DictGet(ing, "quantity", JFloat(0)),
   unit |-> DictGet(ing, "unit", JNull)]
IngredientArgs(ing) ==
  [name |-> DictGet(ing, "name", JStr(<<>>)),
   quantity |-> DictGet(ing, "quantity", JNull),
   unit |-> DictGet(ing, "unit", JNull)]
ValidIngredient(a) ==
  ValidStr(a.name) /\ ValidOptFloat(a.quantity) /\ ValidOptStr(a.unit)
Ingredient(ing) ==
  IF ing.t # "obj" THEN None
  ELSE LET a == IngredientArgs(ing)
       IN  IF ValidIngredient(a)
           THEN Some([name |-> a.name.s, quantity |-> OptFloat(a.quantity),
                      unit |-> OptStr(a.unit)])
           ELSE None

\* ------------------------------- Recipe_Extractor_Demo.py: extract_recipe

RecipeKeys ==
  {"title", "description", "prep_time", "cook_time", "servings",
   "ingredients", "instructions"}
TextKeys == {"title", "description", "prep_time", "cook_time", "servings"}

\* json.loads(extraction.extraction_text): None when it raises.
JsonLoads(text) == IF text.t = "garbage" THEN None ELSE Some(text)

\* The items a for loop over a JSON value visits; None when the value is not
\* iterable.  A string yields its characters and an object its keys.
IterItems(j) ==
  CASE j.t = "list" -> Some(j.xs)
    [] j.t = "str" -> Some([i \in 1..Len(j.s) |-> JStr(<<j.s[i]>>)])
    [] j.t = "obj" ->
         Some(IF \A k \in DOMAIN j.f : j.f[k].t = "absent"
              THEN <<>> ELSE <<JStr(<<"k">>)>>)
    [] OTHER -> None

\* Lines 186-194: the ingredient dictionaries converted in order; None when
\* the loop raises.
BuildIngredients(j) ==
  LET items == IterItems(j)
  IN  IF IsNone(items) THEN None
      ELSE IF \E i \in 1..Len(Get(items)) : IsNone(Ingredient(Get(items)[i]))
      THEN None
      ELSE Some([i \in 1..Len(Get(items)) |-> Get(Ingredient(Get(items)[i]))])

\* Mutant: a missing description has no default.
RecipeArgsNoDefault(data) ==
  [title |-> DictGet(data, "title", JStr(<<>>)),
   description |-> DictGet(data, "description", JNull),
   prep_time |-> DictGet(data, "prep_time", JStr(<<>>)),
   cook_time |-> DictGet(data, "cook_time", JStr(<<>>)),
   servings |-> DictGet(data, "servings", JStr(<<>>)),
   instructions |-> DictGet(data, "instructions", JList(<<>>))]

\* Mutant: prep_time and cook_time are taken from each other's key.
RecipeArgsSwapped(data) ==
  [title |-> DictGet(data, "title", JStr(<<>>)),
   description |-> DictGet(data, "description", JStr(<<>>)),
   prep_time |-> DictGet(data, "cook_time", JStr(<<>>)),
   cook_time |-> DictGet(data, "prep_time", JStr(<<>>)),
   servings |-> DictGet(data, "servings", JStr(<<>>)),
   instructions |-> DictGet(data, "instructions", JList(<<>>))]

\* Lines 197-205: the arguments of Recipe(...), missing keys defaulted.
RecipeArgs(data) ==
  [title |-> DictGet(data, "title", JStr(<<>>)),
   description |-> DictGet(data, "description", JStr(<<>>)),
   prep_time |-> DictGet(data, "prep_time", JStr(<<>>)),
   cook_time |-> DictGet(data, "cook_time", JStr(<<>>)),
   servings |-> DictGet(data, "servings", JStr(<<>>)),
   instructions |-> DictGet(data, "instructions", JList(<<>>))]

\* Models.py lines 27-50: Recipe(...) validates its arguments.
ValidRecipe(a) ==
  /\ \A k \in TextKeys : ValidStr(a[k])
  /\ ValidStrList(a.instructions)

\* Lines 178-211, the body of the inner try for one extraction of class
\* "Recipe": the Recipe it returns, or None when the extraction is skipped
\* (no title: continue) or anything raises (the inner except, line 213).
BuildRecipe(text) ==
  LET loaded == JsonLoads(text)
  IN  IF IsNone(loaded) THEN None
      ELSE IF Get(loaded).t # "obj" THEN None
      ELSE IF ~Truthy(DictGet(Get(loaded), "title", JNull)) THEN None
      ELSE LET data == Get(loaded)
               ings == BuildIngredients(DictGet(data, "ingredients", JList(<<>>)))
               a == RecipeArgs(data)
           IN  IF IsNone(ings) \/ ~ValidRecipe(a) THEN None
               ELSE Some([title |-> a.title.s,
                          description |-> a.description.s,
                          prep_time |-> a.prep_time.s,
                          cook_time |-> a.cook_time.s,
                          servings |-> a.servings.s,
                          ingredients |-> Get(ings),
                          instructions |-> StrList(a.instructions)])

\* Line 175 and the inner try: what one extraction contributes.
TryExtraction(e) ==
  IF e.extraction_class = "Recipe" THEN BuildRecipe(e.extraction_text) ELSE None

\* Lines 174-218: the for loop returns at the first extraction that builds a
\* Recipe, and None is returned when the loop ends.
\* Mutant: an extraction that cannot be built ends the loop.
RECURSIVE FirstRecipeOrStop(_, _)
FirstRecipeOrStop(xs, i) ==
  IF i > Len(xs) THEN None
  ELSE IF xs[i].extraction_class # "Recipe" THEN FirstRecipeOrStop(xs, i + 1)
  ELSE TryExtraction(xs[i])

RECURSIVE FirstRecipe(_, _)
FirstRecipe(xs, i) ==
  IF i > Len(xs) THEN None
  ELSE IF IsSome(TryExtraction(xs[i])) THEN TryExtraction(xs[i])
  ELSE FirstRecipe(xs, i + 1)

\* Line 173: result and hasattr(result, 'extractions') and result.extractions
HasExtractions(result) == result.kind = "Result" /\ result.extractions # <<>>

\* Lines 172-218: the parse of the service's result.
ParseResult(result) ==
  IF HasExtractions(result) THEN FirstRecipe(result.extractions, 1) ELSE None

\* ------------------------------------ Recipe_Extractor_Main.py: file names

Letters == {"A", "S", "a", "b", "o", "p", "s", "u", "U+1D400"}
Digits == {"1"}
\* str.isalnum() of one character.  "U+1D400" stands for MATHEMATICAL BOLD
\* CAPITAL A, an uppercase letter that has no lowercase form.
IsAlnum(c) == c \in Letters \cup Digits
\* str.lower() of one character.
LowerChar(c) ==
  CASE c = "A" -> "a"
    [] c = "S" -> "s"
    [] OTHER -> c

\* Line 68: c.isalnum() or c in (' ', '-', '_')
KeepChar(c) == IsAlnum(c) \/ c \in {" ", "-", "_"}
KeepChars(s) == SelectSeq(s, KeepChar)

\* str.rstrip() of a string whose only whitespace is the space.
RECURSIVE RStrip(_)
RStrip(s) ==
  IF s # <<>> /\ s[Len(s)] = " " THEN RStrip(SubSeq(s, 1, Len(s) - 1)) ELSE s

\* Line 69: .replace(' ', '_') and .lower()
ReplaceSpaces(s) == [i \in 1..Len(s) |-> IF s[i] = " " THEN "_" ELSE s[i]]
Lower(s) == [i \in 1..Len(s) |-> LowerChar(s[i])]

\* Mutant: the title is not lowercased.
SafeTitleNotLowered(title) == ReplaceSpaces(RStrip(KeepChars(title)))

\* Lines 68-69: safe_title before the fallback of line 70.
SafeTitle(title) == Lower(ReplaceSpaces(RStrip(KeepChars(title))))

\* ----------------------------------- Recipe_Extractor_Main.py: the outputs

\* Line 78: json.dump(recipe.model_dump(), ...), the document written.
DumpIngredient(ing) ==
  JObj([name |-> JStr(ing.name),
        quantity |-> IF IsNone(ing.quantity) THEN JNull
                     ELSE JFloat(Get(ing.quantity)),
        unit |-> IF IsNone(ing.unit) THEN JNull ELSE JStr(Get(ing.unit))])
JsonDump(r) ==
  JObj([title |-> JStr(r.title),
        description |-> JStr(r.description),
        prep_time |-> JStr(r.prep_time),
        cook_time |-> JStr(r.cook_time),
        servings |-> JStr(r.servings),
        ingredients |->
          JList([i \in 1..Len(r.ingredients) |-> DumpIngredient(r.ingredients[i])]),
        instructions |->
          JList([i \in 1..Len(r.instructions) |-> JStr(r.instructions[i])])])

\* generate_html_visualization: the values the template is filled with.
HtmlIngredient(ing) ==
  [quantity_str |-> ing.quantity,
   unit_str |-> IF IsSome(ing.unit) /\ Get(ing.unit) # <<>> THEN Get(ing.unit)
                ELSE <<>>,
   name |-> ing.name]
GenerateHtml(r, original_text) ==
  [title |-> r.title, prep_time |-> r.prep_time, cook_time |-> r.cook_time,
   servings |-> r.servings, description |-> r.description,
   ingredients |->
     [i \in 1..Len(r.ingredients) |-> HtmlIngredient(r.ingredients[i])],
   instructions |-> r.instructions,
   original_text |-> original_text]

\* Mutant: the file is opened for appending.
WriteFileAppending(fs, path, content) ==
  [p \in DOMAIN fs \cup {path} |->
     IF p # path THEN fs[p]
     ELSE IF p \in DOMAIN fs THEN [first |-> fs[p], then |-> content]
     ELSE content]

\* open(path, 'w') and a write: the file is created or truncated, and then
\* holds what was written.
WriteFile(fs, path, content) ==
  [p \in DOMAIN fs \cup {path} |-> IF p = path THEN content ELSE fs[p]]

JsonPath(stem) == [stem |-> stem, ext |-> "json"]
HtmlPath(stem) == [stem |-> stem, ext |-> "html"]

\* -------------------------------------------------------------- the text

\* len(text) and len(text.strip())
TextLen(t) == t.lead + t.body + t.trail
StripLen(t) == t.body

\* --------------------------------------------------------------- inputs

IngObj(name, quantity, unit) ==
  JObj([name |-> name, quantity |-> quantity, unit |-> unit])

\* A document with every field populated.
FullFields ==
  [title |-> JStr(<<"S", "o", "u", "p">>),
   description |-> JStr(<<"warm">>),
   prep_time |-> JStr(<<"15 minutes">>),
   cook_time |-> JStr(<<"30 minutes">>),
   servings |-> JStr(<<"4 servings">>),
   ingredients |->
     JList(<<IngObj(JStr(<<"flour">>), JFloat(225), JStr(<<"cups">>)),
             IngObj(JStr(<<"eggs">>), JInt(200), JStr(<<"large">>))>>),
   instructions |-> JList(<<JStr(<<"mix">>), JStr(<<"bake">>)>>)]
DocFull == JObj(FullFields)

\* A second complete document, with another title and other lists.
DocPie ==
  JObj([FullFields EXCEPT
          !.title = JStr(<<"A", " ", "b", "!">>),
          !.ingredients = JList(<<IngObj(JStr(<<"salt">>), JFloat(50), JStr(<<"tsp">>))>>),
          !.instructions = JList(<<JStr(<<"bake">>), JStr(<<"mix">>), JStr(<<"serve">>)>>)])

\* Complete documents whose title leaves no character for the file name.
DocBang == JObj([FullFields EXCEPT !.title = JStr(<<"!", " ">>)])

\* Ingredients that lack quantity, unit, both, the name, or hold nulls.
DocPartialIngredients ==
  JObj([FullFields EXCEPT !.ingredients =
    JList(<<IngObj(JStr(<<"salt">>), JAbsent, JStr(<<"pinch">>)),
            IngObj(JStr(<<"eggs">>), JInt(200), JAbsent),
            IngObj(JStr(<<"water">>), JAbsent, JAbsent),
            IngObj(JAbsent, JFloat(50), JStr(<<"tsp">>)),
            IngObj(JStr(<<"oil">>), JNull, JNull)>>)])

\* The document with key k omitted, and with key k holding v.
Omit(k) == JObj([FullFields EXCEPT ![k] = JAbsent])
With(k, v) == JObj([FullFields EXCEPT ![k] = v])
DocOnlyTitle ==
  JObj([k \in RecipeKeys |-> IF k = "title" THEN FullFields.title ELSE JAbsent])

Documents ==
  {DocFull, DocPie, DocBang, DocPartialIngredients, DocOnlyTitle}
  \cup {Omit(k) : k \in {"title", "description", "ingredients"}}
  \cup {With(k, JNull) : k \in {"title", "description", "ingredients"}}
  \cup {With("title", JStr(<<>>)), With("title", JInt(5)),
        With("ingredients", JList(<<JStr(<<"2 cups flour">>)>>)),
        JGarbage, JList(<<>>)}

Extraction(class, text) == [extraction_class |-> class, extraction_text |-> text]
Extractions ==
  {Extraction("Recipe", d) : d \in Documents}
  \cup {Extraction("recipe", DocPie)}

\* What lx.extract returns: None, an object without extractions, or a result
\* with a list of extractions.
Results ==
  {[kind |-> "None", extractions |-> <<>>],
   [kind |-> "NoAttr", extractions |-> <<>>]}
  \cup {[kind |-> "Result", extractions |-> xs] :
          xs \in UNION {[1..n -> Extractions] : n \in 0..MaxExtractions}}

\* The exceptions lx.extract raises, and all those of the model: each is a
\* subclass of Exception.
ExceptionKinds == {"ValueError", "ConnectionError", "RuntimeError"}
Exceptions == ExceptionKinds \cup {"FileNotFoundError", "AttributeError"}

\* What the service does when it is called.
Behaviours ==
  {[raises |-> Some(k), returns |-> None] : k \in ExceptionKinds}
  \cup {[raises |-> None, returns |-> Some(r)] : r \in Results}

\* The input texts: empty, blank, too short (also when the surrounding
\* whitespace brings the raw length to the minimum) and long enough.
Pads == {0, 1}
Texts ==
  {[lead |-> p, body |-> b, trail |-> p] :
     p \in Pads, b \in {0, 1, MinTextLen - 1, MinTextLen}}
\* A text long enough, for the runs that start after the length check.
LongText == [lead |-> 0, body |-> MinTextLen, trail |-> 0]

\* ---------------------------------------------------------------- state

VARIABLES
  pc,             \* where the program is
  caller,         \* "main", "parse" (parse_recipe called directly) or
                  \* "extract" (extract_recipe called directly)
  run,            \* the number of the run of parse_recipe
  apiKey,         \* os.getenv("LANGEXTRACT_API_KEY"), or the api_key argument
  inputFile,      \* input_file: whether it is a Path, its stem, the file
  text,           \* recipe_text / text, None before it is read
  mock,           \* what the service does for this input, once decided
  calls,          \* the calls of lx.extract in this run
  result,         \* extract_recipe's local result
  recipe,         \* the Optional[Recipe] extract_recipe returns
  extractOutcome, \* "pending", "returned", or "raised" (an exception left
                  \* extract_recipe)
  safe_title,     \* parse_recipe's local safe_title
  dirExists,      \* whether output_dir exists
  files,          \* the files of output_dir: path -> content
  success,        \* what parse_recipe returned, None before it returns
  escaped,        \* whether an exception left parse_recipe
  exitCode        \* the process exit code, None while it runs

vars ==
  <<pc, caller, run, apiKey, inputFile, text, mock, calls, result, recipe,
    extractOutcome, safe_title, dirExists, files, success, escaped, exitCode>>

NoFiles == <<>>

\* main() passes input_file="recipe.txt", a str (line 298).
MainInputFile(exists, content) ==
  [isPath |-> FALSE, stem |-> <<"recipe">>, exists |-> exists, content |-> content]
PathInputFile(stem, exists, content) ==
  [isPath |-> TRUE, stem |-> stem, exists |-> exists, content |-> content]
NoInputFile ==
  [isPath |-> FALSE, stem |-> <<>>, exists |-> FALSE, content |-> LongText]
InputFiles ==
  {MainInputFile(e, c) : e \in {TRUE}, c \in Texts}
  \cup {MainInputFile(FALSE, LongText)}
  \cup {PathInputFile(<<"My Notes">>, TRUE, c) : c \in Texts}
  \cup {PathInputFile(<<"My Notes">>, FALSE, LongText)}

ApiKeys == {None, Some(<<>>), Some(<<"key">>)}

Locals ==
  /\ run = 1
  /\ mock = None
  /\ calls = 0
  /\ result = None
  /\ recipe = None
  /\ extractOutcome = "pending"
  /\ safe_title = <<>>
  /\ files = NoFiles
  /\ success = None
  /\ escaped = FALSE
  /\ exitCode = None

Init ==
  /\ caller \in {"main", "parse", "extract"}
  /\ pc = CASE caller = "main" -> "main"
            [] caller = "parse" -> "parse_read"
            [] OTHER -> "extract"
  /\ apiKey \in IF caller = "main" THEN ApiKeys ELSE {Some(<<"key">>)}
  /\ inputFile \in
       CASE caller = "main" -> {f \in InputFiles : ~f.isPath}
         [] caller = "parse" -> {f \in InputFiles : f.isPath}
         [] OTHER -> {NoInputFile}
  /\ text \in IF caller = "extract" THEN {Some(t) : t \in Texts} ELSE {None}
  /\ dirExists \in BOOLEAN
  /\ Locals

\* -------------------------------------------------------------- actions

\* Mutant: the handler catches ValueError alone.
ExtractCatchesValueError(kind) == kind = "ValueError"
\* Recipe_Extractor_Demo.py line 220: except Exception
ExtractCatches(kind) == kind \in Exceptions
\* Recipe_Extractor_Main.py line 102: except Exception
ParseCatches(kind) == kind \in Exceptions

\* An exception of this kind raised inside parse_recipe's try: the handler of
\* lines 102-104 returns False, and what it does not catch leaves the function.
ParseRaises(kind) ==
  /\ pc' = "parse_return"
  /\ IF ParseCatches(kind)
     THEN success' = Some(FALSE) /\ escaped' = escaped
     ELSE success' = success /\ escaped' = TRUE

\* Mutant: an empty key passes.
NoKeyIsNone(key) == IsNone(key)
\* not api_key (line 292)
NoKey(key) == IsNone(key) \/ Get(key) = <<>>

\* main, lines 291-302: without an API key the process exits with 1;
\* otherwise parse_recipe is called.
MainStart ==
  /\ pc = "main"
  /\ IF NoKey(apiKey)
     THEN pc' = "exited" /\ exitCode' = Some(1)
     ELSE pc' = "parse_read" /\ exitCode' = exitCode
  /\ UNCHANGED <<caller, run, apiKey, inputFile, text, mock, calls, result,
                 recipe, extractOutcome, safe_title, dirExists, files,
                 success, escaped>>

\* parse_recipe, lines 43-51: the input file is read; an empty or blank file
\* ends the run with False, and so does a file that cannot be opened.
ReadInput ==
  /\ pc = "parse_read"
  /\ IF ~inputFile.exists
     THEN ParseRaises("FileNotFoundError") /\ text' = text
     ELSE /\ text' = Some(inputFile.content)
          /\ escaped' = escaped
          /\ IF StripLen(inputFile.content) = 0
             THEN pc' = "parse_return" /\ success' = Some(FALSE)
             ELSE pc' = "extract" /\ success' = success
  /\ UNCHANGED <<caller, run, apiKey, inputFile, mock, calls, result, recipe,
                 extractOutcome, safe_title, dirExists, files, exitCode>>

\* extract_recipe, lines 41-45: a text too short is not extracted.
\* Mutant: the length is taken without strip().
TooShortUnstripped(t) == TextLen(t) < MinTextLen
TooShort(t) == StripLen(t) < MinTextLen
CheckLength ==
  /\ pc = "extract"
  /\ IF TooShort(Get(text))
     THEN pc' = "extract_return" /\ recipe' = None /\ extractOutcome' = "returned"
     ELSE pc' = "call" /\ recipe' = recipe /\ extractOutcome' = extractOutcome
  /\ UNCHANGED <<caller, run, apiKey, inputFile, text, mock, calls, result,
                 safe_title, dirExists, files, success, escaped, exitCode>>

\* Mutant: a call that raised is made once more.
CallServiceRetrying ==
  /\ pc = "call"
  /\ \E b \in IF IsNone(mock) THEN Behaviours ELSE {Get(mock)} :
       /\ mock' = Some(b)
       /\ calls' = calls + 1
       /\ IF IsSome(b.raises)
          THEN /\ pc' = IF calls = 0 THEN "call" ELSE "extract_return"
               /\ result' = result
               /\ recipe' = None
               /\ extractOutcome' =
                    IF calls = 0 THEN extractOutcome
                    ELSE IF ExtractCatches(Get(b.raises)) THEN "returned"
                    ELSE "raised"
          ELSE /\ pc' = "parse_results"
               /\ result' = b.returns
               /\ recipe' = recipe
               /\ extractOutcome' = extractOutcome
  /\ UNCHANGED <<caller, run, apiKey, inputFile, text, safe_title, dirExists,
                 files, success, escaped, exitCode>>

\* extract_recipe, lines 164-170 and 220-222: the one call of the service.  It
\* returns a result, or raises; the outer handler turns what it catches into
\* None.  A second run on the same input is served as the first was.
CallService ==
  /\ pc = "call"
  /\ \E b \in IF IsNone(mock) THEN Behaviours ELSE {Get(mock)} :
       /\ mock' = Some(b)
       /\ calls' = calls + 1
       /\ IF IsSome(b.raises)
          THEN /\ pc' = "extract_return"
               /\ result' = result
               /\ recipe' = None
               /\ extractOutcome' =
                    IF ExtractCatches(Get(b.raises)) THEN "returned" ELSE "raised"
          ELSE /\ pc' = "parse_results"
               /\ result' = b.returns
               /\ recipe' = recipe
               /\ extractOutcome' = extractOutcome
  /\ UNCHANGED <<caller, run, apiKey, inputFile, text, safe_title, dirExists,
                 files, success, escaped, exitCode>>

\* extract_recipe, lines 172-218: the result is parsed.
ParseResults ==
  /\ pc = "parse_results"
  /\ recipe' = ParseResult(Get(result))
  /\ extractOutcome' = "returned"
  /\ pc' = "extract_return"
  /\ UNCHANGED <<caller, run, apiKey, inputFile, text, mock, calls, result,
                 safe_title, dirExists, files, success, escaped, exitCode>>

\* Mutant: the output directory is created before the recipe is looked at.
ExtractReturnMakingDir ==
  /\ pc = "extract_return"
  /\ result' = None
  /\ dirExists' = (dirExists \/ caller # "extract")
  /\ IF caller = "extract"
     THEN pc' = "done" /\ UNCHANGED <<success, escaped>>
     ELSE IF extractOutcome = "raised"
     THEN ParseRaises(Get(Get(mock).raises))
     ELSE /\ escaped' = escaped
          /\ IF IsNone(recipe)
             THEN pc' = "parse_return" /\ success' = Some(FALSE)
             ELSE pc' = "mkdir" /\ success' = success
  /\ UNCHANGED <<caller, run, apiKey, inputFile, text, mock, calls, recipe,
                 extractOutcome, safe_title, files, exitCode>>

\* extract_recipe has returned (or raised).  Its direct caller is done;
\* parse_recipe, lines 58-62, returns False without a recipe.
ExtractReturn ==
  /\ pc = "extract_return"
  /\ result' = None
  /\ IF caller = "extract"
     THEN pc' = "done" /\ UNCHANGED <<success, escaped>>
     ELSE IF extractOutcome = "raised"
     THEN ParseRaises(Get(Get(mock).raises))
     ELSE /\ escaped' = escaped
          /\ IF IsNone(recipe)
             THEN pc' = "parse_return" /\ success' = Some(FALSE)
             ELSE pc' = "mkdir" /\ success' = success
  /\ UNCHANGED <<caller, run, apiKey, inputFile, text, mock, calls, recipe,
                 extractOutcome, safe_title, dirExists, files, exitCode>>

\* parse_recipe, line 65: output_dir.mkdir(parents=True, exist_ok=True)
Mkdir ==
  /\ pc = "mkdir"
  /\ dirExists' = TRUE
  /\ pc' = "filename"
  /\ UNCHANGED <<caller, run, apiKey, inputFile, text, mock, calls, result,
                 recipe, extractOutcome, safe_title, files, success, escaped,
                 exitCode>>

\* parse_recipe, lines 68-71: the file name from the title, or from the
\* input file's stem when nothing is left of the title.  A str has no stem.
GenerateFilename ==
  /\ pc = "filename"
  /\ LET safe == SafeTitle(Get(recipe).title)
     IN  IF safe # <<>>
         THEN /\ safe_title' = safe
              /\ pc' = "write_json"
              /\ UNCHANGED <<success, escaped>>
         ELSE IF inputFile.isPath
         THEN /\ safe_title' = inputFile.stem
              /\ pc' = "write_json"
              /\ UNCHANGED <<success, escaped>>
         ELSE /\ safe_title' = safe
              /\ ParseRaises("AttributeError")
  /\ UNCHANGED <<caller, run, apiKey, inputFile, text, mock, calls, result,
                 recipe, extractOutcome, dirExists, files, exitCode>>

\* parse_recipe, lines 74-78: the JSON file is written.
WriteJson ==
  /\ pc = "write_json"
  /\ files' = WriteFile(files, JsonPath(safe_title), JsonDump(Get(recipe)))
  /\ pc' = "write_html"
  /\ UNCHANGED <<caller, run, apiKey, inputFile, text, mock, calls, result,
                 recipe, extractOutcome, safe_title, dirExists, success,
                 escaped, exitCode>>

\* parse_recipe, lines 81-100: the HTML file is written and True returned.
WriteHtml ==
  /\ pc = "write_html"
  /\ files' = WriteFile(files, HtmlPath(safe_title),
                        GenerateHtml(Get(recipe), Get(text)))
  /\ success' = Some(TRUE)
  /\ pc' = "parse_return"
  /\ UNCHANGED <<caller, run, apiKey, inputFile, text, mock, calls, result,
                 recipe, extractOutcome, safe_title, dirExists, escaped,
                 exitCode>>

\* Line 304: sys.exit(0 if success else 1); an uncaught exception ends the
\* process with 1.
ExitStatus(ok) == IF IsSome(ok) /\ Get(ok) THEN 0 ELSE 1

\* parse_recipe has returned: main exits with the status, a direct caller is
\* done.
ParseReturn ==
  /\ pc = "parse_return"
  /\ IF caller = "main"
     THEN pc' = "exited" /\ exitCode' = Some(ExitStatus(success))
     ELSE pc' = "done" /\ exitCode' = exitCode
  /\ UNCHANGED <<caller, run, apiKey, inputFile, text, mock, calls, result,
                 recipe, extractOutcome, safe_title, dirExists, files,
                 success, escaped>>

\* parse_recipe is called again with the same arguments, the input file and
\* the service unchanged; the output directory is as the last run left it.
RunAgain ==
  /\ pc = "done"
  /\ caller = "parse"
  /\ run < MaxRuns
  /\ run' = run + 1
  /\ pc' = "parse_read"
  /\ text' = None
  /\ calls' = 0
  /\ result' = None
  /\ recipe' = None
  /\ extractOutcome' = "pending"
  /\ safe_title' = <<>>
  /\ success' = None
  /\ UNCHANGED <<caller, apiKey, inputFile, mock, dirExists, files, escaped,
                 exitCode>>

Next ==
  \/ MainStart
  \/ ReadInput
  \/ CheckLength
  \/ CallService
  \/ ParseResults
  \/ ExtractReturn
  \/ Mkdir
  \/ GenerateFilename
  \/ WriteJson
  \/ WriteHtml
  \/ ParseReturn
  \/ RunAgain

Spec == Init /\ [][Next]_vars

\* ------------------------------------------------ the slug specification

\* The characters of the titles: an uppercase and a lowercase letter, a
\* digit, the three characters kept besides, one that is removed, and an
\* uppercase letter without a lowercase form.
SlugChars == {"A", "b", "1", " ", "-", "_", "!", "U+1D400"}
Titles == UNION {[1..n -> SlugChars] : n \in 1..MaxTitleLen}

\* The service mocked to return one complete Recipe with the given title.
TitleMock(title) ==
  [raises |-> None,
   returns |-> Some([kind |-> "Result",
                     extractions |->
                       <<Extraction("Recipe", With("title", JStr(title)))>>])]

\* The runs of main and of parse_recipe on a text long enough, the service
\* returning a recipe of any title.
InitSlug ==
  /\ caller \in {"main", "parse"}
  /\ pc = IF caller = "main" THEN "main" ELSE "parse_read"
  /\ apiKey = Some(<<"key">>)
  /\ inputFile \in
       IF caller = "main" THEN {MainInputFile(TRUE, LongText)}
       ELSE {PathInputFile(<<"My Notes">>, TRUE, LongText)}
  /\ text = None
  /\ dirExists = FALSE
  /\ run = 1
  /\ mock \in {Some(TitleMock(t)) : t \in Titles}
  /\ calls = 0
  /\ result = None
  /\ recipe = None
  /\ extractOutcome = "pending"
  /\ safe_title = <<>>
  /\ files = NoFiles
  /\ success = None
  /\ escaped = FALSE
  /\ exitCode = None

SpecSlug == InitSlug /\ [][Next]_vars

\* ============================================================== properties

\* The service has returned and extract_recipe has parsed what it returned:
\* the result and the value extract_recipe returns are both in the state.
Parsed == pc = "extract_return" /\ IsSome(result)
Returned == Get(result).extractions

\* The smallest index of a sequence whose item satisfies P.
FirstIndex(P(_), xs) ==
  CHOOSE i \in 1..Len(xs) : P(xs[i]) /\ \A j \in 1..(i - 1) : ~P(xs[j])

\* The shape of an extraction, read off the document alone.
IsRecipeObject(e) ==
  e.extraction_class = "Recipe" /\ e.extraction_text.t = "obj"
HasTitle(e) ==
  /\ IsRecipeObject(e)
  /\ e.extraction_text.f.title.t = "str"
  /\ e.extraction_text.f.title.s # <<>>

\* A document's fields are of the types the schema takes: a text field is a
\* string, ingredients are a list of objects (name a string, quantity a
\* number or null, unit a string or null), instructions a list of strings;
\* any key but title may be omitted, in a document or in an ingredient.
TextFieldOk(j) == j.t \in {"absent", "str"}
IngredientOk(j) ==
  /\ j.t = "obj"
  /\ j.f.name.t \in {"absent", "str"}
  /\ j.f.quantity.t \in {"absent", "null", "int", "float"}
  /\ j.f.unit.t \in {"absent", "null", "str"}
IngredientsOk(j) ==
  \/ j.t = "absent"
  \/ j.t = "list" /\ \A i \in 1..Len(j.xs) : IngredientOk(j.xs[i])
InstructionsOk(j) ==
  \/ j.t = "absent"
  \/ j.t = "list" /\ \A i \in 1..Len(j.xs) : j.xs[i].t = "str"
WellTyped(e) ==
  /\ HasTitle(e)
  /\ \A k \in TextKeys : TextFieldOk(e.extraction_text.f[k])
  /\ IngredientsOk(e.extraction_text.f.ingredients)
  /\ InstructionsOk(e.extraction_text.f.instructions)

\* The extraction extract_recipe selects, when there is one.
Selected == Returned[FirstIndex(WellTyped, Returned)]
SelectedDoc == Selected.extraction_text.f

\* C1 (as stated): extract_recipe returns the Recipe built from the first
\* extraction of class "Recipe" whose text parses as a JSON object with a
\* non-empty title, and None when there is no such extraction.
C1_FirstTitledObject ==
  Parsed =>
    IF \E i \in 1..Len(Returned) : HasTitle(Returned[i])
    THEN /\ IsSome(recipe)
         /\ recipe = BuildRecipe(Returned[FirstIndex(HasTitle, Returned)].extraction_text)
    ELSE IsNone(recipe)

\* C1 (amended): extract_recipe returns the Recipe built from the first
\* extraction of class "Recipe" whose text parses as a JSON object with a
\* non-empty title and from which a Recipe can be built, its fields being of
\* the schema's types; the extractions before it are skipped, and the result
\* is None when no extraction qualifies.
C1_FirstBuildableObject ==
  Parsed =>
    IF \E i \in 1..Len(Returned) : WellTyped(Returned[i])
    THEN /\ IsSome(recipe)
         /\ recipe = BuildRecipe(Selected.extraction_text)
         /\ Get(recipe).title = SelectedDoc.title.s
    ELSE IsNone(recipe)

\* C1 witness: a partial object without title came first and the complete
\* object after it was selected.
C1_Witness ==
  /\ Parsed
  /\ Len(Returned) = 2
  /\ Returned[1] = Extraction("Recipe", Omit("title"))
  /\ Returned[2] = Extraction("Recipe", DocPie)
  /\ IsSome(recipe)
  /\ Get(recipe).title = DocPie.f.title.s

\* The text is shorter than the minimum once its surrounding whitespace is
\* stripped.
ShortText == IsSome(text) /\ Get(text).body < 100

\* C2: for a text shorter than the minimum after stripping, extract_recipe
\* returns None and the service is never invoked.
C2_ShortTextSkipped ==
  ShortText =>
    /\ calls = 0
    /\ IsNone(mock)
    /\ IsNone(recipe)
    /\ pc \notin {"call", "parse_results", "mkdir", "filename", "write_json",
                  "write_html"}
    /\ (pc = "extract_return" => extractOutcome = "returned")

\* C2 witness: extract_recipe has returned for a text whose raw length
\* reaches the minimum and whose stripped length does not.
C2_Witness ==
  /\ pc = "extract_return"
  /\ ShortText
  /\ Get(text).lead + Get(text).body + Get(text).trail >= 100
  /\ Get(text).body > 0
  /\ IsNone(recipe)

\* A document with all fields populated: every text field a non-empty
\* string, every ingredient with name, quantity and unit, every instruction
\* a string.
PopulatedIngredient(j) ==
  /\ j.t = "obj"
  /\ j.f.name.t = "str"
  /\ j.f.quantity.t \in {"int", "float"}
  /\ j.f.unit.t = "str"
Populated(e) ==
  /\ IsRecipeObject(e)
  /\ \A k \in TextKeys :
       e.extraction_text.f[k].t = "str" /\ e.extraction_text.f[k].s # <<>>
  /\ e.extraction_text.f.ingredients.t = "list"
  /\ \A i \in 1..Len(e.extraction_text.f.ingredients.xs) :
       PopulatedIngredient(e.extraction_text.f.ingredients.xs[i])
  /\ e.extraction_text.f.instructions.t = "list"
  /\ \A i \in 1..Len(e.extraction_text.f.instructions.xs) :
       e.extraction_text.f.instructions.xs[i].t = "str"

\* The Recipe r carries every field of the populated document d unchanged.
SameFields(r, d) ==
  /\ \A k \in TextKeys : r[k] = d[k].s
  /\ Len(r.ingredients) = Len(d.ingredients.xs)
  /\ \A i \in 1..Len(d.ingredients.xs) :
       /\ r.ingredients[i].name = d.ingredients.xs[i].f.name.s
       /\ r.ingredients[i].quantity = <<d.ingredients.xs[i].f.quantity.n>>
       /\ r.ingredients[i].unit = <<d.ingredients.xs[i].f.unit.s>>
  /\ Len(r.instructions) = Len(d.instructions.xs)
  /\ \A i \in 1..Len(d.instructions.xs) :
       r.instructions[i] = d.instructions.xs[i].s

SinglePopulated == Parsed /\ Len(Returned) = 1 /\ Populated(Returned[1])

\* C3: when the response holds a single "Recipe" extraction whose JSON object
\* has all fields populated, the Recipe returned carries every field with the
\* value it has in that JSON, the ingredients and the instructions in the
\* same order and of the same length.
C3_RoundTrip ==
  SinglePopulated =>
    IsSome(recipe) /\ SameFields(Get(recipe), Returned[1].extraction_text.f)

\* C3 witness: the populated document with two ingredients, one quantity an
\* integer and one a fraction, has been returned as a Recipe.
C3_Witness ==
  /\ SinglePopulated
  /\ Returned[1].extraction_text = DocFull
  /\ IsSome(recipe)
  /\ Len(Get(recipe).ingredients) = 2
  /\ Get(recipe).ingredients[1].quantity = <<225>>

\* An extraction of class "Recipe" whose text is a JSON object in which
\* every key is either omitted or of the schema's type (a title that is
\* present is a non-empty string).
OmitsOnly(e) ==
  /\ IsRecipeObject(e)
  /\ e.extraction_text.f.title.t = "absent" \/ HasTitle(e)
  /\ \A k \in TextKeys \ {"title"} : TextFieldOk(e.extraction_text.f[k])
  /\ IngredientsOk(e.extraction_text.f.ingredients)
  /\ InstructionsOk(e.extraction_text.f.instructions)

\* Every key of the Recipe r that the document d omits holds the empty text
\* or the empty sequence.
OmittedDefaulted(r, d) ==
  /\ DOMAIN r = RecipeKeys
  /\ \A k \in RecipeKeys : d[k].t = "absent" => r[k] = <<>>

\* Every JSON file written holds an object with the seven keys, each a text
\* or a list.
JsonFilesComplete ==
  \A p \in DOMAIN files :
    p.ext = "json" =>
      /\ files[p].t = "obj"
      /\ DOMAIN files[p].f = RecipeKeys
      /\ \A k \in TextKeys : files[p].f[k].t = "str"
      /\ files[p].f.ingredients.t = "list"
      /\ files[p].f.instructions.t = "list"

\* C4 (as stated): every Recipe returned and every JSON file written has all
\* seven fields; a field the JSON omits, whichever it is, is defaulted to the
\* empty text or the empty sequence, and the extraction is returned rather
\* than rejected.
C4_AnyOmittedFieldDefaulted ==
  /\ JsonFilesComplete
  /\ Parsed /\ (\E i \in 1..Len(Returned) : OmitsOnly(Returned[i])) =>
       /\ IsSome(recipe)
       /\ OmittedDefaulted(Get(recipe),
            Returned[FirstIndex(OmitsOnly, Returned)].extraction_text.f)

\* C4 (amended): every Recipe returned and every JSON file written has all
\* seven fields; a field other than title that the JSON omits is defaulted to
\* the empty text or the empty sequence, and the extraction is returned rather
\* than rejected.
C4_OmittedFieldDefaulted ==
  /\ JsonFilesComplete
  /\ Parsed /\ (\E i \in 1..Len(Returned) : WellTyped(Returned[i])) =>
       /\ IsSome(recipe)
       /\ OmittedDefaulted(Get(recipe), SelectedDoc)

\* C4 witness: a document holding nothing but a title has been returned as a
\* Recipe with empty texts and empty lists.
C4_Witness ==
  /\ Parsed
  /\ Returned = <<Extraction("Recipe", DocOnlyTitle)>>
  /\ IsSome(recipe)
  /\ Get(recipe).description = <<>>
  /\ Get(recipe).ingredients = <<>>
  /\ Get(recipe).instructions = <<>>

\* The ingredients of the selected document, when they are a list.
SelectedIngredients == SelectedDoc.ingredients.xs

\* Ingredient r is the ingredient object j with its missing quantity or unit
\* set to None and its other fields kept.
MissingIsNone(r, j) ==
  /\ j.f.quantity.t = "absent" => r.quantity = None
  /\ j.f.unit.t = "absent" => r.unit = None
  /\ j.f.name.t = "str" => r.name = j.f.name.s
  /\ j.f.quantity.t \in {"int", "float"} => r.quantity = <<j.f.quantity.n>>
  /\ j.f.unit.t = "str" => r.unit = <<j.f.unit.s>>

\* C5: an ingredient object of the selected extraction that lacks quantity or
\* unit does not make extract_recipe fail: the Recipe returned holds that
\* ingredient at the same position, the missing fields None and the others
\* kept.
C5_MissingQuantityOrUnit ==
  /\ Parsed
  /\ \E i \in 1..Len(Returned) : WellTyped(Returned[i])
  /\ SelectedDoc.ingredients.t = "list"
  =>
  /\ IsSome(recipe)
  /\ Len(Get(recipe).ingredients) = Len(SelectedIngredients)
  /\ \A i \in 1..Len(SelectedIngredients) :
       MissingIsNone(Get(recipe).ingredients[i], SelectedIngredients[i])

\* C5 witness: the document whose ingredients lack quantity, unit or both has
\* been returned, the first ingredient without quantity and the third with
\* neither.
C5_Witness ==
  /\ Parsed
  /\ Returned = <<Extraction("Recipe", DocPartialIngredients)>>
  /\ IsSome(recipe)
  /\ Len(Get(recipe).ingredients) = 5
  /\ Get(recipe).ingredients[1].quantity = None
  /\ Get(recipe).ingredients[1].unit = <<<<"pinch">>>>
  /\ Get(recipe).ingredients[3].quantity = None
  /\ Get(recipe).ingredients[3].unit = None

\* ------------------------------------------------------- the file names

\* The characters of a title that are alphanumeric, a space, a hyphen or an
\* underscore; the lowercase form of a character.
Allowed(c) == c \in {"A", "b", "1", "U+1D400", " ", "-", "_"}
Lowercase(c) == IF c = "A" THEN "a" ELSE c
Underscored(s) ==
  [i \in 1..Len(s) |-> IF s[i] = " " THEN "_" ELSE Lowercase(s[i])]

\* The title with the characters removed that are not allowed.
AllowedOnly(title) == SelectSeq(title, Allowed)
\* The same up to its last character that is not a space.
UpToLastNonSpace(s) ==
  LET last == IF \E i \in 1..Len(s) : s[i] # " "
              THEN CHOOSE i \in 1..Len(s) :
                     s[i] # " " /\ \A j \in (i + 1)..Len(s) : s[j] = " "
              ELSE 0
  IN  SubSeq(s, 1, last)

\* The slug as stated, and with the trailing spaces removed first.
StatedSlug(title) == Underscored(AllowedOnly(title))
StrippedSlug(title) == Underscored(UpToLastNonSpace(AllowedOnly(title)))

NoSpace(s) == \A i \in 1..Len(s) : s[i] # " "
NoUppercase(s) == \A i \in 1..Len(s) : s[i] \notin {"A", "U+1D400"}
NoLetterToLower(s) == \A i \in 1..Len(s) : Lowercase(s[i]) = s[i]

\* parse_recipe has chosen the file name of a recipe.
Named == pc \in {"write_json", "write_html"}

\* C6 (as stated): the slug is the title with every character removed that is
\* not alphanumeric, space, hyphen or underscore, its spaces turned into
\* underscores, lowercased; it holds no space and no uppercase letter.
C6_SlugAsStated ==
  Named /\ StatedSlug(Get(recipe).title) # <<>> =>
    /\ safe_title = StatedSlug(Get(recipe).title)
    /\ NoSpace(safe_title)
    /\ NoUppercase(safe_title)

\* C6 (amended): the slug derived from the title, when it is not empty, is
\* the title with every character removed that is not alphanumeric, space,
\* hyphen or underscore, the trailing spaces removed, every other space
\* turned into an underscore, lowercased; it holds no space and no letter
\* that has a lowercase form, and it names the two files written.
C6_SlugStripped ==
  /\ Named /\ StrippedSlug(Get(recipe).title) # <<>> =>
       /\ safe_title = StrippedSlug(Get(recipe).title)
       /\ NoSpace(safe_title)
       /\ NoLetterToLower(safe_title)
  /\ /\ pc = "parse_return"
     /\ success = Some(TRUE)
     /\ StrippedSlug(Get(recipe).title) # <<>>
     => DOMAIN files = {JsonPath(StrippedSlug(Get(recipe).title)),
                        HtmlPath(StrippedSlug(Get(recipe).title))}

\* C6 witness: the title " A " has given the slug "_a": the leading space an
\* underscore, the trailing one removed, the letter lowercased.
C6_Witness ==
  /\ pc = "write_json"
  /\ Get(recipe).title = <<" ", "A", " ">>
  /\ safe_title = <<"_", "a">>

\* Nothing of the title is left for the file name: it has no alphanumeric
\* character, no hyphen and no underscore.
EmptySlug(title) ==
  \A i \in 1..Len(title) : title[i] \notin {"A", "b", "1", "U+1D400", "-", "_"}

\* C7: when the slug derived from the title is empty, parse_recipe names the
\* files after the input file's base name, writes both and reports success,
\* in the run of main too.
C7_EmptySlugFallsBack ==
  pc = "parse_return" /\ IsSome(recipe) /\ EmptySlug(Get(recipe).title) =>
    /\ success = Some(TRUE)
    /\ safe_title = inputFile.stem
    /\ DOMAIN files = {JsonPath(inputFile.stem), HtmlPath(inputFile.stem)}

\* ------------------------------------------------------- the exit code

KeyMissing == apiKey = None \/ apiKey = Some(<<>>)
BothWritten ==
  /\ IsSome(recipe)
  /\ DOMAIN files = {JsonPath(safe_title), HtmlPath(safe_title)}

\* C8: the exit code is 0 exactly when parse_recipe succeeded, a recipe
\* extracted and both files written, and 1 otherwise; without an API key main
\* exits with 1 at once: the input file is not read, the service not called,
\* nothing written.
C8_ExitCode ==
  caller = "main" =>
    /\ pc # "exited" => exitCode = None
    /\ pc = "exited" =>
         /\ exitCode \in {Some(0), Some(1)}
         /\ exitCode = Some(0) <=> success = Some(TRUE)
         /\ success = Some(TRUE) <=> BothWritten
    /\ KeyMissing =>
         /\ pc \in {"main", "exited"}
         /\ pc = "exited" => exitCode = Some(1)
         /\ text = None /\ calls = 0 /\ IsNone(mock)
         /\ success = None /\ files = NoFiles

\* C8 witness: main has exited with 0, the two files written.
C8_Witness ==
  /\ caller = "main"
  /\ pc = "exited"
  /\ exitCode = Some(0)
  /\ BothWritten

\* ------------------------------------------------------------ idempotence

\* C9: in a second run of parse_recipe on the same input file and the same
\* model response, the JSON file is written to the path the first run wrote,
\* and writing it leaves the file, and the directory, as they were.
C9_SecondWriteChangesNothing ==
  [][pc = "write_json" /\ run > 1 =>
       /\ JsonPath(safe_title) \in DOMAIN files
       /\ files' = files]_vars

\* C9 witness: the second run has written both files and returned True.
C9_Witness ==
  /\ run = 2
  /\ pc = "parse_return"
  /\ success = Some(TRUE)
  /\ JsonPath(safe_title) \in DOMAIN files

\* ------------------------------------------------------------- exceptions

\* The call of the service made in this run raised.
ServiceRaised == calls > 0 /\ IsSome(mock) /\ IsSome(Get(mock).raises)

\* C10: when the external call raises, extract_recipe catches the exception
\* and returns None; parse_recipe then returns False, and no exception
\* reaches the caller.
C10_ServiceExceptionCaught ==
  ServiceRaised =>
    /\ extractOutcome = "returned"
    /\ IsNone(recipe)
    /\ ~escaped
    /\ pc \in {"extract_return", "parse_return", "done", "exited"}
    /\ caller # "extract" /\ pc # "extract_return" => success = Some(FALSE)

\* C10 witness: the service raised in a run of parse_recipe, which has
\* returned False.
C10_Witness ==
  /\ caller = "parse"
  /\ pc = "parse_return"
  /\ ServiceRaised
  /\ success = Some(FALSE)

\* ------------------------------------------------------ the service calls

\* The text passes the length check.
LongEnough == IsSome(text) /\ Get(text).body >= 100
\* extract_recipe is past its call of the service, or was never to make it.
PastCall == pc \notin {"main", "parse_read", "extract", "call"}

\* C11: in every run the service is called at most once: exactly once when
\* the text passes the length check, and not again after the call failed or
\* returned nothing usable.
C11_CalledAtMostOnce ==
  /\ calls \in {0, 1}
  /\ calls = 1 => LongEnough /\ PastCall
  /\ LongEnough /\ PastCall => calls = 1

\* C11 witness: main's run has ended without a recipe, the service having
\* returned extractions of which none was usable, after one call.
C11_Witness ==
  /\ caller = "main"
  /\ pc = "exited"
  /\ calls = 1
  /\ IsSome(Get(mock).returns)
  /\ Get(Get(mock).returns).extractions # <<>>
  /\ IsNone(recipe)
  /\ exitCode = Some(1)

\* ------------------------------------------------------ the file system

\* A step leaves the output directory and its files as they were.
FilesUntouched == dirExists' = dirExists /\ files' = files

\* C12: while parse_recipe has no recipe (the input empty or blank, the text
\* too short, the call failed, no extraction usable), no step creates the
\* output directory or writes a file, and a run never loses the recipe it
\* has; the directory is created, then the JSON file written, then the HTML
\* file, only once a recipe is extracted.
C12_NoRecipeNoOutput ==
  [][/\ IsNone(recipe) => FilesUntouched
     /\ IsSome(recipe) /\ IsNone(recipe') => run' = run + 1
     /\ dirExists' # dirExists => files' = files /\ pc = "mkdir"
     /\ files' # files =>
          /\ dirExists
          /\ \A p \in DOMAIN files' \ DOMAIN files :
               p.ext = "html" => JsonPath(p.stem) \in DOMAIN files]_vars

\* C12 witness: parse_recipe has returned False, no extraction of the
\* service's answer being usable; the output directory does not exist and no
\* file is written.
C12_Witness ==
  /\ caller = "parse"
  /\ run = 1
  /\ pc = "parse_return"
  /\ success = Some(FALSE)
  /\ calls = 1
  /\ IsNone(recipe)
  /\ ~dirExists
  /\ files = NoFiles

=============================================================================
